---- MODULE Spec2Model ----
(***************************************************************************)
(* SkillLink backend: the connection routes, the credit routes and the     *)
(* stores they share (users.credits / wallets.balance, connections,        *)
(* credit_transactions).                                                   *)
(*                                                                         *)
(* The repository carries two generations of the routers:                  *)
(*   - backend = "users":   src/unnamed/part_001 (connections) with        *)
(*                          src/routes/credits.js, balances in             *)
(*                          users.credits;                                 *)
(*   - backend = "wallets": src/routes/connections.js, balances in         *)
(*                          wallets.balance.                               *)
(* Init picks which generation is mounted.                                 *)
(*                                                                         *)
(* Every `await supabase...` is one step of a request: requests of the     *)
(* same process interleave at their awaits (node's event loop), and the    *)
(* store applies each statement atomically.  A store statement may fail;   *)
(* supabase-js then returns {error} (it does not throw).                   *)
(* Amounts (numeric(10,2) / numeric(12,2)) are counted in whole units.     *)
(***************************************************************************)
EXTENDS Integers, Sequences, FiniteSets, TLC

\* ---------------------------------------------------------------- bounds
MaxBal      == 2   \* initial balances range over 0..MaxBal
MaxPrice    == 2   \* prices range over 0..MaxPrice
MaxAmount   == 1   \* purchase / spend amounts range over 1..MaxAmount
MaxConns    == 3   \* connection ids 1..MaxConns
InitConns   == 2   \* connections already stored when the server starts
MaxRequests == 2   \* requests served in one behaviour
MaxFaults   == 2   \* store statements that fail in one behaviour
MaxSerial   == 1   \* requests served in one behaviour of SpecPut
MaxEdits    == 1   \* skill edits served first in one behaviour of SpecPrice
MaxTags     == 2   \* tag lists of the matchmaking service have 0..MaxTags tags
MaxCatalog  == 3   \* skills in the catalog the matchmaking service reads
MaxLimit    == 2   \* limit arguments of the matchmaking service: -1..MaxLimit

Users    == {"u1", "u2"}
Slots    == {1, 2}            \* requests in flight at the same time
ConnIds  == 1..MaxConns
Prices   == 0..MaxPrice
Amounts  == 1..MaxAmount

NoConn   == [status |-> "absent"]
NoWallet == -1000             \* no row in wallets for the user
NoSkill  == [owner |-> "-", price |-> 0]
NoUser   == -2000             \* no row in users for the user
SkillIds == {1, 2}

\* updateConnectionSchema: the values Joi admits for status
Statuses == {"pending", "accepted", "rejected", "completed"}

\* value.status of a body that has no status key
Undefined == "undefined"

VARIABLES
  backend,      \* which generation of the routers is mounted
  skills,       \* skills table: id -> [owner, price] or NoSkill
  connections,  \* connections table: id -> row or NoConn
  nextId,       \* next connection id the store hands out
  credits,      \* users.credits
  wallets,      \* wallets.balance (NoWallet: no row)
  txlog,        \* credit_transactions, in insertion order
  req,          \* per slot: the handler's position and locals
  hist,         \* per slot: what the request has done so far (history)
  last,         \* the request answered most recently: its locals and history
  ledger,       \* per connection: what acceptances have done to it (history)
  opening,      \* the balances and the price the behaviour started with (history)
  nreq,         \* requests started
  faults,       \* store faults injected
  mm            \* the matchmaking call: its arguments and what it returned

vars == <<backend, skills, connections, nextId, credits, wallets, txlog,
          req, hist, last, ledger, opening, nreq, faults, mm>>

store == <<skills, connections, nextId, credits, wallets, txlog>>

\* ---------------------------------------------------------------- helpers
Idle == [op |-> "none", pc |-> "idle", actor |-> "-", id |-> 0,
         newStatus |-> "-", learner |-> "-", teacher |-> "-", price |-> 0,
         status |-> "-", learnerCredits |-> 0, teacherCredits |-> 0,
         amount |-> 0, currentCredits |-> 0, balance |-> 0,
         outcome |-> "-"]

NoHist == [preL |-> 0, preT |-> 0, preTx |-> 0, preStatus |-> "-",
           postL |-> 0, postT |-> 0, postTx |-> 0, postStatus |-> "-",
           debited |-> FALSE, credited |-> FALSE,
           restored |-> FALSE, restoreFailed |-> FALSE,
           ntx |-> 0, statusWritten |-> FALSE]

Free(r) == req[r].pc = "idle"

\* the balance column the mounted generation keeps for user u
Balance(u) == IF backend = "users" THEN credits[u] ELSE wallets[u]

\* a store statement either succeeds or (within the fault budget) fails
MayFail(f) == f \in BOOLEAN /\ (f => faults < MaxFaults)
Inject(f)  == faults' = IF f THEN faults + 1 ELSE faults

\* from: the statuses the row had when a transfer was started for it;
\* debits, restores: committed learner debits and compensating restores;
\* written: the statuses requests have written to the row
NoLedger == [from |-> {}, debits |-> 0, restores |-> 0, written |-> {}]

\* the balance column of user u after the step
BalanceNext(u) == IF backend = "users" THEN credits'[u] ELSE wallets'[u]

\* res.status(...).json(...): the request in slot r ends with outcome out;
\* q is its record and h its history before the response.  The slot is
\* free again; last keeps the request with the balances, log length and
\* connection status at the moment of the response.
Respond(r, q, h, out) ==
  /\ req' = [req EXCEPT ![r] = Idle]
  /\ hist' = [hist EXCEPT ![r] = NoHist]
  /\ last' = [q |-> [q EXCEPT !.pc = "done", !.outcome = out],
              h |-> IF q.learner = "-" THEN h
                    ELSE [h EXCEPT !.postL = BalanceNext(q.learner),
                                   !.postT = BalanceNext(q.teacher),
                                   !.postTx = Len(txlog'),
                                   !.postStatus = connections'[q.id].status]]

\* the request in slot r goes on to its next await
Goto(r, q, h, pc) ==
  /\ req' = [req EXCEPT ![r] = [q EXCEPT !.pc = pc]]
  /\ hist' = [hist EXCEPT ![r] = h]
  /\ UNCHANGED last

\* no matchmaking call
NoCall == [op |-> "none"]

\* ---------------------------------------------------------------- Init
Init ==
  /\ mm = NoCall
  /\ backend \in {"users", "wallets"}
  /\ \E p \in Prices :
       /\ skills = [k \in SkillIds |->
            IF k = 1 THEN [owner |-> "u2", price |-> p] ELSE NoSkill]
       /\ connections = [i \in ConnIds |->
            IF i <= InitConns
              THEN [skill |-> 1, learner |-> "u1", teacher |-> "u2",
                    price |-> p, status |-> "pending"]
              ELSE NoConn]
  /\ nextId = InitConns + 1
  /\ IF backend = "users"
       THEN /\ credits \in [Users -> 0..MaxBal]
            /\ wallets = [u \in Users |-> NoWallet]
       ELSE /\ credits = [u \in Users |-> 0]
            /\ wallets \in [Users -> {NoWallet} \cup 0..MaxBal]
  /\ txlog = << >>
  /\ req = [r \in Slots |-> Idle]
  /\ hist = [r \in Slots |-> NoHist]
  /\ last = [q |-> Idle, h |-> NoHist]
  /\ ledger = [i \in ConnIds |-> NoLedger]
  /\ opening = [bal |-> [u \in Users |-> Balance(u)],
                price |-> skills[1].price]
  /\ nreq = 0
  /\ faults = 0

\* a request arrives and takes the first free slot
Arrive(r) ==
  /\ Free(r) /\ \A s \in Slots : Free(s) => r <= s
  /\ nreq < MaxRequests /\ nreq' = nreq + 1

\* the locals and history of a PUT /:id request once it has read the row
\* (line 147: the price is the one stored on the connection)
PutReqSkillPrice(actor, id, st, c) ==
  [Idle EXCEPT !.op = "put", !.actor = actor, !.id = id, !.newStatus = st,
               !.learner = c.learner, !.teacher = c.teacher,
               !.price = skills[c.skill].price, !.status = c.status]

PutReq(actor, id, st, c) ==
  [Idle EXCEPT !.op = "put", !.actor = actor, !.id = id, !.newStatus = st,
               !.learner = c.learner, !.teacher = c.teacher,
               !.price = c.price, !.status = c.status]

PutHist(c) ==
  [NoHist EXCEPT !.preL = Balance(c.learner), !.preT = Balance(c.teacher),
                 !.preTx = Len(txlog), !.preStatus = c.status]

\* lines 129-131: only the connection's teacher may update it
NotTeacherNever(c, actor) == FALSE

NotTeacher(c, actor) == c.teacher # actor

\* line 134: the guard in front of the credit transfer
TransferGuardAnyStatus(st, current) == current # "accepted"

TransferGuard(st, current) == st = "accepted" /\ current # "accepted"

\* ------------------------------------------ PUT /api/connections/:id
\* src/unnamed/part_001, lines 113-253 (users.credits generation)

\* lines 114-134: validate, read the connection, check the actor
GetConnection(r, actor, id, st) ==
  /\ backend = "users"
  /\ Arrive(r)
  /\ UNCHANGED <<store, backend, opening>>
  /\ \E f \in BOOLEAN :
       /\ MayFail(f) /\ Inject(f)
       /\ LET c == connections[id]
              q0 == [Idle EXCEPT !.op = "put", !.actor = actor, !.id = id,
                                 !.newStatus = st]
          IN  IF f \/ c = NoConn
                THEN /\ Respond(r, q0, NoHist, "notFound")
                     /\ UNCHANGED ledger
              ELSE IF NotTeacher(c, actor)
                THEN /\ Respond(r, PutReq(actor, id, st, c), PutHist(c),
                                "forbidden")
                     /\ UNCHANGED ledger
              ELSE IF TransferGuard(st, c.status)
                THEN /\ Goto(r, PutReq(actor, id, st, c), PutHist(c),
                             "getLearner")
                     /\ ledger' = [ledger EXCEPT
                          ![id].from = @ \cup {c.status}]
              ELSE /\ Goto(r, PutReq(actor, id, st, c), PutHist(c),
                           "updateStatus")
                   /\ UNCHANGED ledger

\* lines 136-155: read the learner's credits, check sufficiency
GetLearner(r) ==
  /\ req[r].op = "put" /\ req[r].pc = "getLearner"
  /\ UNCHANGED <<store, backend, opening, ledger, nreq>>
  /\ \E f \in BOOLEAN :
       /\ MayFail(f) /\ Inject(f)
       /\ LET learnerCredits == credits[req[r].learner]
              q == [req[r] EXCEPT !.learnerCredits = learnerCredits]
          IN  IF f THEN Respond(r, req[r], hist[r], "fetchLearnerFailed")
              ELSE IF learnerCredits < req[r].price
                THEN Respond(r, q, hist[r], "insufficient")
              ELSE Goto(r, q, hist[r], "getTeacher")

\* lines 158-168: read the teacher's credits
GetTeacher(r) ==
  /\ req[r].op = "put" /\ req[r].pc = "getTeacher"
  /\ UNCHANGED <<store, backend, opening, ledger, nreq>>
  /\ \E f \in BOOLEAN :
       /\ MayFail(f) /\ Inject(f)
       /\ IF f THEN Respond(r, req[r], hist[r], "fetchTeacherFailed")
          ELSE Goto(r, [req[r] EXCEPT
                          !.teacherCredits = credits[req[r].teacher]],
                    hist[r], "deduct")

\* lines 171-181: write learnerCredits - price to the learner
DeductLearner(r) ==
  /\ req[r].op = "put" /\ req[r].pc = "deduct"
  /\ UNCHANGED <<skills, connections, nextId, wallets, txlog, backend, opening, nreq>>
  /\ \E f \in BOOLEAN :
       /\ MayFail(f) /\ Inject(f)
       /\ IF f
            THEN /\ UNCHANGED <<credits, ledger>>
                 /\ Respond(r, req[r], hist[r], "deductFailed")
            ELSE /\ credits' = [credits EXCEPT ![req[r].learner] =
                                  req[r].learnerCredits - req[r].price]
                 /\ ledger' = [ledger EXCEPT ![req[r].id].debits = @ + 1]
                 /\ Goto(r, req[r], [hist[r] EXCEPT !.debited = TRUE],
                         "addTeacher")

\* lines 184-192: write teacherCredits + price to the teacher
AddTeacher(r) ==
  /\ req[r].op = "put" /\ req[r].pc = "addTeacher"
  /\ UNCHANGED <<skills, connections, nextId, wallets, txlog, backend, opening, nreq>>
  /\ \E f \in BOOLEAN :
       /\ MayFail(f) /\ Inject(f)
       /\ IF f
            THEN /\ UNCHANGED <<credits, ledger>>
                 /\ Goto(r, req[r], hist[r], "rollback")
            ELSE /\ credits' = [credits EXCEPT ![req[r].teacher] =
                                  req[r].teacherCredits + req[r].price]
                 /\ UNCHANGED ledger
                 /\ Goto(r, req[r], [hist[r] EXCEPT !.credited = TRUE],
                         "recordSpend")

\* line 196: the value the rollback writes to the learner
RollbackCreditsWrong(q) == q.learnerCredits - q.price

RollbackCredits(q) == q.learnerCredits

\* what the handler answers after the rollback statement; the statement's
\* result is not looked at (line 194: the await's value is dropped)
RollbackNoOutcome(failed) == "-"

RollbackOutcome(failed) == "addTeacherFailed"

\* lines 193-199: write learnerCredits back, then answer 500
Rollback(r) ==
  /\ req[r].op = "put" /\ req[r].pc = "rollback"
  /\ UNCHANGED <<skills, connections, nextId, wallets, txlog, backend, opening, nreq>>
  /\ \E f \in BOOLEAN :
       /\ MayFail(f) /\ Inject(f)
       /\ IF f
            THEN /\ UNCHANGED <<credits, ledger>>
                 /\ Respond(r, req[r],
                            [hist[r] EXCEPT !.restoreFailed = TRUE],
                            RollbackOutcome(TRUE))
            ELSE /\ credits' = [credits EXCEPT ![req[r].learner] =
                                  RollbackCredits(req[r])]
                 /\ ledger' = [ledger EXCEPT ![req[r].id].restores = @ + 1]
                 /\ Respond(r, req[r], [hist[r] EXCEPT !.restored = TRUE],
                            RollbackOutcome(FALSE))

\* a row of credit_transactions
Tx(user, type, amount, conn) ==
  [user |-> user, type |-> type, amount |-> amount, conn |-> conn]

\* lines 203-215: insert the learner's spend record (result not looked at)
RecordSpend(r) ==
  /\ req[r].op = "put" /\ req[r].pc = "recordSpend"
  /\ UNCHANGED <<skills, connections, nextId, credits, wallets, backend, opening,
                 ledger, nreq>>
  /\ \E f \in BOOLEAN :
       /\ MayFail(f) /\ Inject(f)
       /\ IF f
            THEN /\ UNCHANGED txlog
                 /\ Goto(r, req[r], hist[r], "recordEarning")
            ELSE /\ txlog' = Append(txlog, Tx(req[r].learner, "spend",
                                              req[r].price, req[r].id))
                 /\ Goto(r, req[r], [hist[r] EXCEPT !.ntx = @ + 1],
                         "recordEarning")

\* lines 218-230: insert the teacher's earning record, typed "refund"
RecordEarning(r) ==
  /\ req[r].op = "put" /\ req[r].pc = "recordEarning"
  /\ UNCHANGED <<skills, connections, nextId, credits, wallets, backend, opening,
                 ledger, nreq>>
  /\ \E f \in BOOLEAN :
       /\ MayFail(f) /\ Inject(f)
       /\ IF f
            THEN /\ UNCHANGED txlog
                 /\ Goto(r, req[r], hist[r], "updateStatus")
            ELSE /\ txlog' = Append(txlog, Tx(req[r].teacher, "refund",
                                              req[r].price, req[r].id))
                 /\ Goto(r, req[r], [hist[r] EXCEPT !.ntx = @ + 1],
                         "updateStatus")

\* the status column after .update({status: value.status, updated_at}): a
\* key whose value is undefined is left out of the statement, so the
\* column keeps its value
Written(newStatus, old) == IF newStatus = Undefined THEN old ELSE newStatus

\* lines 234-252: update the row's status; .single() fails when the row is
\* gone, and the catch answers 500
UpdateStatus(r) ==
  /\ req[r].op = "put" /\ req[r].pc = "updateStatus"
  /\ UNCHANGED <<skills, nextId, credits, wallets, txlog, backend, opening, nreq>>
  /\ \E f \in BOOLEAN :
       /\ MayFail(f) /\ Inject(f)
       /\ IF f \/ connections[req[r].id] = NoConn
            THEN /\ UNCHANGED <<connections, ledger>>
                 /\ Respond(r, req[r], hist[r], "error")
            ELSE /\ connections' = [connections EXCEPT
                      ![req[r].id].status = Written(req[r].newStatus, @)]
                 /\ ledger' = [ledger EXCEPT
                      ![req[r].id].written =
                         IF req[r].newStatus = Undefined THEN @
                         ELSE @ \cup {req[r].newStatus}]
                 /\ Respond(r, req[r],
                            [hist[r] EXCEPT !.statusWritten = TRUE], "ok")

\* ------------------------------------------ PUT /api/connections/:id
\* src/routes/connections.js, lines 112-171 (wallets generation)

\* lines 113-129: validate, read the connection, check the actor
LegacyGetConnection(r, actor, id, st) ==
  /\ backend = "wallets"
  /\ Arrive(r)
  /\ UNCHANGED <<store, backend, opening, ledger>>
  /\ \E f \in BOOLEAN :
       /\ MayFail(f) /\ Inject(f)
       /\ LET c == connections[id]
              q0 == [Idle EXCEPT !.op = "putW", !.actor = actor, !.id = id,
                                 !.newStatus = st]
              q  == [PutReq(actor, id, st, c) EXCEPT !.op = "putW"]
          IN  IF f \/ c = NoConn
                THEN Respond(r, q0, NoHist, "notFound")
              ELSE IF NotTeacher(c, actor)
                THEN Respond(r, q, PutHist(c), "forbidden")
              ELSE Goto(r, q, PutHist(c), "updateStatus")

\* lines 131-140: update the row's status first; answer at once unless the
\* new status is accepted
LegacyUpdateStatus(r) ==
  /\ req[r].op = "putW" /\ req[r].pc = "updateStatus"
  /\ UNCHANGED <<skills, nextId, credits, wallets, txlog, backend, opening, nreq>>
  /\ \E f \in BOOLEAN :
       /\ MayFail(f) /\ Inject(f)
       /\ IF f \/ connections[req[r].id] = NoConn
            THEN /\ UNCHANGED <<connections, ledger>>
                 /\ Respond(r, req[r], hist[r], "error")
            ELSE /\ connections' = [connections EXCEPT
                                      ![req[r].id].status = req[r].newStatus]
                 /\ IF req[r].newStatus = "accepted"
                      THEN /\ ledger' = [ledger EXCEPT
                                ![req[r].id].written = @ \cup {"accepted"},
                                ![req[r].id].from = @ \cup {req[r].status}]
                           /\ Goto(r, req[r],
                                   [hist[r] EXCEPT !.statusWritten = TRUE],
                                   "getWallet")
                      ELSE /\ ledger' = [ledger EXCEPT
                                ![req[r].id].written =
                                   @ \cup {req[r].newStatus}]
                           /\ Respond(r, req[r],
                                   [hist[r] EXCEPT !.statusWritten = TRUE],
                                   "ok")

\* lines 142-149: read the learner's wallet; no row or a failed read leaves
\* wallet null and the debit is skipped
LegacyGetWallet(r) ==
  /\ req[r].op = "putW" /\ req[r].pc = "getWallet"
  /\ UNCHANGED <<store, backend, opening, ledger, nreq>>
  /\ \E f \in BOOLEAN :
       /\ MayFail(f) /\ Inject(f)
       /\ IF f \/ wallets[req[r].learner] = NoWallet
            THEN Respond(r, req[r], hist[r], "ok")
            ELSE Goto(r, [req[r] EXCEPT
                            !.learnerCredits = wallets[req[r].learner]],
                      hist[r], "updateWallet")

\* lines 149-153: write balance - price to the learner's wallet
LegacyUpdateWallet(r) ==
  /\ req[r].op = "putW" /\ req[r].pc = "updateWallet"
  /\ UNCHANGED <<skills, connections, nextId, credits, txlog, backend, opening, nreq>>
  /\ \E f \in BOOLEAN :
       /\ MayFail(f) /\ Inject(f)
       /\ IF f
            THEN /\ UNCHANGED <<wallets, ledger>>
                 /\ Goto(r, req[r], hist[r], "recordSpend")
            ELSE /\ wallets' = [wallets EXCEPT ![req[r].learner] =
                                  req[r].learnerCredits - req[r].price]
                 /\ ledger' = [ledger EXCEPT ![req[r].id].debits = @ + 1]
                 /\ Goto(r, req[r], [hist[r] EXCEPT !.debited = TRUE],
                         "recordSpend")

\* lines 155-167: insert the spend record (no connection id in meta), answer
LegacyRecordSpend(r) ==
  /\ req[r].op = "putW" /\ req[r].pc = "recordSpend"
  /\ UNCHANGED <<skills, connections, nextId, credits, wallets, backend, opening,
                 ledger, nreq>>
  /\ \E f \in BOOLEAN :
       /\ MayFail(f) /\ Inject(f)
       /\ IF f
            THEN /\ UNCHANGED txlog
                 /\ Respond(r, req[r], hist[r], "ok")
            ELSE /\ txlog' = Append(txlog, Tx(req[r].learner, "spend",
                                              req[r].price, 0))
                 /\ Respond(r, req[r], [hist[r] EXCEPT !.ntx = @ + 1], "ok")

\* ------------------------------------------ POST /api/connections
\* src/unnamed/part_001 and src/routes/connections.js, lines 21-61
\* (the same code in both): read the skill, refuse the owner, insert the
\* connection with the skill's owner and price
\* lines 36-38: the skill's owner may not connect to their own skill
SelfConnectionNever(skill, actor) == FALSE

SelfConnection(skill, actor) == skill.owner = actor

\* lines 40-48: the row to insert
NewConnectionOpeningPrice(skillId, actor, skill) ==
  [skill |-> skillId, learner |-> actor, teacher |-> skill.owner,
   price |-> opening.price, status |-> "pending"]

NewConnection(skillId, actor, skill) ==
  [skill |-> skillId, learner |-> actor, teacher |-> skill.owner,
   price |-> skill.price, status |-> "pending"]

CreateConnection(r, actor, skillId) ==
  /\ Arrive(r)
  /\ nextId <= MaxConns
  /\ UNCHANGED <<skills, credits, wallets, txlog, backend, opening, ledger>>
  /\ \E f1 \in BOOLEAN, f2 \in BOOLEAN :
       /\ f1 \/ f2 => faults < MaxFaults
       /\ ~(f1 /\ f2)
       /\ Inject(f1 \/ f2)
       /\ LET skill == skills[skillId]
              q == [Idle EXCEPT !.op = "post", !.actor = actor,
                                !.id = skillId]
          IN  IF f1 \/ skill = NoSkill
                THEN /\ UNCHANGED <<connections, nextId>>
                     /\ Respond(r, q, NoHist, "skillNotFound")
              ELSE IF SelfConnection(skill, actor)
                THEN /\ UNCHANGED <<connections, nextId>>
                     /\ Respond(r, q, NoHist, "selfConnection")
              ELSE IF f2 \/ credits[actor] = NoUser
                THEN /\ UNCHANGED <<connections, nextId>>
                     /\ Respond(r, q, NoHist, "error")
              ELSE /\ connections' = [connections EXCEPT ![nextId] =
                        NewConnection(skillId, actor, skill)]
                   /\ nextId' = nextId + 1
                   /\ Respond(r, q, NoHist, "created")

\* ------------------------------------------ DELETE /api/connections/:id
\* src/unnamed/part_001 lines 259-285, src/routes/connections.js lines
\* 177-203 (the same code in both): read learner_id, refuse anyone else,
\* delete the row
\* lines 271-273: only the connection's learner may cancel it
NotLearnerNever(c, actor) == FALSE

NotLearner(c, actor) == c.learner # actor

CancelConnection(r, actor, id) ==
  /\ Arrive(r)
  /\ UNCHANGED <<skills, nextId, credits, wallets, txlog, backend, opening, ledger>>
  /\ \E f1 \in BOOLEAN, f2 \in BOOLEAN :
       /\ f1 \/ f2 => faults < MaxFaults
       /\ ~(f1 /\ f2)
       /\ Inject(f1 \/ f2)
       /\ LET c == connections[id]
              q == [Idle EXCEPT !.op = "delete", !.actor = actor, !.id = id]
          IN  IF f1 \/ c = NoConn
                THEN /\ UNCHANGED connections
                     /\ Respond(r, q, NoHist, "notFound")
              ELSE IF NotLearner(c, actor)
                THEN /\ UNCHANGED connections
                     /\ Respond(r, q, NoHist, "forbidden")
              ELSE IF f2
                THEN /\ UNCHANGED connections
                     /\ Respond(r, q, NoHist, "error")
              ELSE /\ connections' = [connections EXCEPT ![id] = NoConn]
                   /\ Respond(r, q, NoHist, "ok")

\* ------------------------------------------ POST /api/credits/purchase
\* src/routes/credits.js, lines 47-92

\* lines 48-66: validate the amount, read the caller's credits
PurchaseRead(r, actor, amount) ==
  /\ backend = "users"
  /\ Arrive(r)
  /\ UNCHANGED <<store, backend, opening, ledger>>
  /\ \E f \in BOOLEAN :
       /\ MayFail(f) /\ Inject(f)
       /\ LET q == [Idle EXCEPT !.op = "purchase", !.actor = actor,
                                !.amount = amount,
                                !.currentCredits = credits[actor]]
          IN  IF f \/ credits[actor] = NoUser
                THEN Respond(r, [q EXCEPT !.currentCredits = 0], NoHist,
                             "fetchFailed")
              ELSE Goto(r, q, NoHist, "write")

\* lines 66-77: write currentCredits + amount; a failure is thrown
PurchaseWrite(r) ==
  /\ req[r].op = "purchase" /\ req[r].pc = "write"
  /\ UNCHANGED <<skills, connections, nextId, wallets, txlog, backend, opening,
                 ledger, nreq>>
  /\ \E f \in BOOLEAN :
       /\ MayFail(f) /\ Inject(f)
       /\ IF f
            THEN /\ UNCHANGED credits
                 /\ Respond(r, req[r], hist[r], "error")
            ELSE /\ credits' = [credits EXCEPT ![req[r].actor] =
                                  req[r].currentCredits + req[r].amount]
                 /\ Goto(r, req[r], hist[r], "record")

\* lines 80-88: insert the purchase record (result not looked at), answer
PurchaseRecord(r) ==
  /\ req[r].op = "purchase" /\ req[r].pc = "record"
  /\ UNCHANGED <<skills, connections, nextId, credits, wallets, backend, opening,
                 ledger, nreq>>
  /\ \E f \in BOOLEAN :
       /\ MayFail(f) /\ Inject(f)
       /\ IF f
            THEN /\ UNCHANGED txlog
                 /\ Respond(r, req[r], hist[r], "ok")
            ELSE /\ txlog' = Append(txlog, Tx(req[r].actor, "purchase",
                                              req[r].amount, 0))
                 /\ Respond(r, req[r], [hist[r] EXCEPT !.ntx = @ + 1], "ok")

\* ------------------------------------------ POST /api/credits/spend
\* src/routes/credits.js, lines 98-152

\* lines 99-125: validate the amount, read the caller's credits, check them
SpendRead(r, actor, amount) ==
  /\ backend = "users"
  /\ Arrive(r)
  /\ UNCHANGED <<store, backend, opening, ledger>>
  /\ \E f \in BOOLEAN :
       /\ MayFail(f) /\ Inject(f)
       /\ LET q == [Idle EXCEPT !.op = "spend", !.actor = actor,
                                !.amount = amount,
                                !.currentCredits = credits[actor]]
          IN  IF f \/ credits[actor] = NoUser
                THEN Respond(r, [q EXCEPT !.currentCredits = 0], NoHist,
                             "fetchFailed")
              ELSE IF credits[actor] < amount
                THEN Respond(r, q, NoHist, "insufficient")
              ELSE Goto(r, q, NoHist, "write")

\* lines 128-137: write currentCredits - amount; a failure is thrown
SpendWrite(r) ==
  /\ req[r].op = "spend" /\ req[r].pc = "write"
  /\ UNCHANGED <<skills, connections, nextId, wallets, txlog, backend, opening,
                 ledger, nreq>>
  /\ \E f \in BOOLEAN :
       /\ MayFail(f) /\ Inject(f)
       /\ IF f
            THEN /\ UNCHANGED credits
                 /\ Respond(r, req[r], hist[r], "error")
            ELSE /\ credits' = [credits EXCEPT ![req[r].actor] =
                                  req[r].currentCredits - req[r].amount]
                 /\ Goto(r, req[r], hist[r], "record")

\* lines 140-148: insert the spend record (result not looked at), answer
SpendRecord(r) ==
  /\ req[r].op = "spend" /\ req[r].pc = "record"
  /\ UNCHANGED <<skills, connections, nextId, credits, wallets, backend, opening,
                 ledger, nreq>>
  /\ \E f \in BOOLEAN :
       /\ MayFail(f) /\ Inject(f)
       /\ IF f
            THEN /\ UNCHANGED txlog
                 /\ Respond(r, req[r], hist[r], "ok")
            ELSE /\ txlog' = Append(txlog, Tx(req[r].actor, "spend",
                                              req[r].amount, 0))
                 /\ Respond(r, req[r], [hist[r] EXCEPT !.ntx = @ + 1], "ok")

\* ------------------------------------------ GET /api/credits/balance
\* JavaScript's `v || d` on a number: d when v is 0 (or NaN), v otherwise
OrDefault(v, d) == IF v = 0 THEN d ELSE v

\* a request that carries no authenticated user (req.user is undefined)
NoActor == "-"

\* src/routes/credits.js, lines 24-40: read users.credits of the caller
GetBalance(r, actor) ==
  /\ backend = "users"
  /\ Arrive(r)
  /\ UNCHANGED <<store, backend, opening, ledger>>
  /\ \E f \in BOOLEAN :
       /\ MayFail(f) /\ Inject(f)
       /\ LET q == [Idle EXCEPT !.op = "balance", !.actor = actor]
          IN  IF f \/ credits[actor] = NoUser
                THEN Respond(r, q, NoHist, "fetchFailed")
              ELSE Respond(r, [q EXCEPT !.balance =
                                  OrDefault(credits[actor], 0)],
                           NoHist, "ok")

\* src/unnamed/part_000, lines 24-50: no user on the request answers 100;
\* otherwise read the caller's wallet; no row leads to the insert below, any
\* other error to 500; a row answers parseFloat(balance) || 100
WalletGetBalance(r, actor) ==
  /\ backend = "wallets"
  /\ Arrive(r)
  /\ UNCHANGED <<store, backend, opening, ledger>>
  /\ \E f \in BOOLEAN :
       /\ MayFail(f) /\ Inject(f)
       /\ LET q == [Idle EXCEPT !.op = "balanceW", !.actor = actor]
          IN  IF actor = NoActor
                THEN /\ ~f
                     /\ Respond(r, [q EXCEPT !.balance = 100], NoHist, "ok")
              ELSE IF f THEN Respond(r, q, NoHist, "error")
              ELSE IF wallets[actor] = NoWallet
                THEN Goto(r, q, NoHist, "createWallet")
              ELSE Respond(r, [q EXCEPT !.balance =
                                  OrDefault(wallets[actor], 100)],
                           NoHist, "ok")

\* src/unnamed/part_000, lines 41-47: insert a wallet holding 100 (the
\* result is not looked at: a duplicate key or a missing users row leaves
\* the table as it is), answer 100
WalletCreate(r) ==
  /\ req[r].op = "balanceW" /\ req[r].pc = "createWallet"
  /\ UNCHANGED <<skills, connections, nextId, credits, txlog, backend, opening,
                 ledger, nreq>>
  /\ \E f \in BOOLEAN :
       /\ MayFail(f) /\ Inject(f)
       /\ wallets' = IF f \/ credits[req[r].actor] = NoUser
                         \/ wallets[req[r].actor] # NoWallet
                       THEN wallets
                       ELSE [wallets EXCEPT ![req[r].actor] = 100]
       /\ Respond(r, [req[r] EXCEPT !.balance = 100], hist[r], "ok")

\* ------------------------------------------ PUT /api/skills/:id
\* src/routes/skills.js, lines 100-127

\* lines 102-113: read the skill's owner, refuse anyone else, validate
UpdateSkillRead(r, actor, k, price) ==
  /\ Arrive(r)
  /\ UNCHANGED <<store, backend, opening, ledger>>
  /\ \E f \in BOOLEAN :
       /\ MayFail(f) /\ Inject(f)
       /\ LET q == [Idle EXCEPT !.op = "skillPut", !.actor = actor,
                                !.id = k, !.price = price]
          IN  IF f \/ skills[k] = NoSkill \/ skills[k].owner # actor
                THEN Respond(r, q, NoHist, "forbidden")
              ELSE Goto(r, q, NoHist, "write")

\* lines 115-123: update the skills row with the body; .single() fails when
\* the row is gone
UpdateSkillWrite(r) ==
  /\ req[r].op = "skillPut" /\ req[r].pc = "write"
  /\ UNCHANGED <<connections, nextId, credits, wallets, txlog, backend, opening,
                 ledger, nreq>>
  /\ \E f \in BOOLEAN :
       /\ MayFail(f) /\ Inject(f)
       /\ IF f \/ skills[req[r].id] = NoSkill
            THEN /\ UNCHANGED skills
                 /\ Respond(r, req[r], hist[r], "error")
            ELSE /\ skills' = [skills EXCEPT ![req[r].id].price = req[r].price]
                 /\ Respond(r, req[r], hist[r], "ok")

\* ------------------------------------------ DELETE /api/skills/:id
\* src/routes/skills.js, lines 133-152

\* schema.sql line 34: connections.skill_id ... on delete cascade
SkillCascade(conns, gone) ==
  [i \in ConnIds |->
     IF conns[i] # NoConn /\ conns[i].skill \in gone THEN NoConn
     ELSE conns[i]]

\* lines 135-143: read the skill's owner, refuse anyone else
DeleteSkillRead(r, actor, k) ==
  /\ Arrive(r)
  /\ UNCHANGED <<store, backend, opening, ledger>>
  /\ \E f \in BOOLEAN :
       /\ MayFail(f) /\ Inject(f)
       /\ LET q == [Idle EXCEPT !.op = "skillDelete", !.actor = actor,
                                !.id = k]
          IN  IF f \/ skills[k] = NoSkill \/ skills[k].owner # actor
                THEN Respond(r, q, NoHist, "forbidden")
              ELSE Goto(r, q, NoHist, "write")

\* lines 145-148: delete the skills row; its connections go with it
DeleteSkillWrite(r) ==
  /\ req[r].op = "skillDelete" /\ req[r].pc = "write"
  /\ UNCHANGED <<nextId, credits, wallets, txlog, backend, opening, ledger,
                 nreq>>
  /\ \E f \in BOOLEAN :
       /\ MayFail(f) /\ Inject(f)
       /\ IF f
            THEN /\ UNCHANGED <<skills, connections>>
                 /\ Respond(r, req[r], hist[r], "error")
            ELSE /\ skills' = [skills EXCEPT ![req[r].id] = NoSkill]
                 /\ connections' = SkillCascade(connections, {req[r].id})
                 /\ Respond(r, req[r], hist[r], "ok")

\* ------------------------------------------ DELETE /api/users/me
\* schema.sql line 64: credit_transactions.user_id ... on delete cascade
TxCascade(log, u) == SelectSeq(log, LAMBDA t : t.user # u)

\* schema.sql lines 35-36: connections.learner_id / teacher_id ... on
\* delete cascade
UserCascade(conns, u) ==
  [i \in ConnIds |->
     IF conns[i] # NoConn /\ (conns[i].learner = u \/ conns[i].teacher = u)
       THEN NoConn
     ELSE conns[i]]

\* src/routes/users.js, lines 85-94: delete the caller's users row; the
\* rows of skills, connections, wallets and credit_transactions that
\* reference it are deleted by the store (schema.sql: on delete cascade)
DeleteUser(r, actor) ==
  /\ Arrive(r)
  /\ UNCHANGED <<nextId, backend, opening, ledger>>
  /\ \E f \in BOOLEAN :
       /\ MayFail(f) /\ Inject(f)
       /\ LET q == [Idle EXCEPT !.op = "userDelete", !.actor = actor]
              owned == {k \in SkillIds : skills[k].owner = actor}
          IN  IF f
                THEN /\ UNCHANGED <<skills, connections, credits, wallets,
                                    txlog>>
                     /\ Respond(r, q, NoHist, "error")
              ELSE /\ skills' = [k \in SkillIds |->
                        IF k \in owned THEN NoSkill ELSE skills[k]]
                   /\ connections' =
                        UserCascade(SkillCascade(connections, owned), actor)
                   /\ credits' = [credits EXCEPT ![actor] = NoUser]
                   /\ wallets' = [wallets EXCEPT ![actor] = NoWallet]
                   /\ txlog' = TxCascade(txlog, actor)
                   /\ Respond(r, q, NoHist, "ok")

\* ---------------------------------------------------------------- Next
\* a request arrives: the handler runs up to its first await's result
Arrivals(r) ==
  \/ \E actor \in Users, id \in ConnIds, st \in Statuses :
       GetConnection(r, actor, id, st)
  \/ \E actor \in Users, id \in ConnIds, st \in Statuses :
       LegacyGetConnection(r, actor, id, st)
  \/ \E actor \in Users, k \in SkillIds : CreateConnection(r, actor, k)
  \/ \E actor \in Users, id \in ConnIds : CancelConnection(r, actor, id)
  \/ \E actor \in Users, a \in Amounts : PurchaseRead(r, actor, a)
  \/ \E actor \in Users, a \in Amounts : SpendRead(r, actor, a)

\* a request in flight takes its next step
Steps(r) ==
  \/ GetLearner(r) \/ GetTeacher(r) \/ DeductLearner(r) \/ AddTeacher(r)
  \/ Rollback(r) \/ RecordSpend(r) \/ RecordEarning(r) \/ UpdateStatus(r)
  \/ LegacyUpdateStatus(r) \/ LegacyGetWallet(r) \/ LegacyUpdateWallet(r)
  \/ LegacyRecordSpend(r)
  \/ PurchaseWrite(r) \/ PurchaseRecord(r) \/ SpendWrite(r) \/ SpendRecord(r)

Quiescent == \A r \in Slots : Free(r)

\* requests overlap: any free slot takes a request at any time
Next == (\E r \in Slots : Arrivals(r) \/ Steps(r)) /\ UNCHANGED mm

Spec == Init /\ [][Next]_vars

\* requests one after the other: a request arrives only when none is in
\* flight
NextSeq ==
  /\ \E r \in Slots : (Quiescent /\ Arrivals(r)) \/ Steps(r)
  /\ UNCHANGED mm

SpecSeq == Init /\ [][NextSeq]_vars

\* the connection routes alone, requests overlapping: no purchase and no
\* manual spend runs
ConnArrivals(r) ==
  \/ \E actor \in Users, id \in ConnIds, st \in Statuses :
       GetConnection(r, actor, id, st)
  \/ \E actor \in Users, id \in ConnIds, st \in Statuses :
       LegacyGetConnection(r, actor, id, st)
  \/ \E actor \in Users, k \in SkillIds : CreateConnection(r, actor, k)
  \/ \E actor \in Users, id \in ConnIds : CancelConnection(r, actor, id)

ConnSteps(r) ==
  \/ GetLearner(r) \/ GetTeacher(r) \/ DeductLearner(r) \/ AddTeacher(r)
  \/ Rollback(r) \/ RecordSpend(r) \/ RecordEarning(r) \/ UpdateStatus(r)
  \/ LegacyUpdateStatus(r) \/ LegacyGetWallet(r) \/ LegacyUpdateWallet(r)
  \/ LegacyRecordSpend(r)

NextConn ==
  /\ \E r \in Slots : ConnArrivals(r) \/ ConnSteps(r)
  /\ UNCHANGED mm

SpecConn == Init /\ [][NextConn]_vars

\* UpdateStatus requests alone, one after the other, at most MaxSerial of them
PutArrivals(r) ==
  \/ \E actor \in Users, id \in ConnIds, st \in Statuses :
       GetConnection(r, actor, id, st)
  \/ \E actor \in Users, id \in ConnIds, st \in Statuses :
       LegacyGetConnection(r, actor, id, st)

NextPut ==
  /\ \E r \in Slots :
       \/ Quiescent /\ nreq < MaxSerial /\ PutArrivals(r)
       \/ ConnSteps(r)
  /\ UNCHANGED mm

SpecPut == Init /\ [][NextPut]_vars

\* every route of the model, requests served one after the other: the
\* connection and credit routes with the balance query, the skill routes
\* and the account deletion
AllArrivals(r) ==
  \/ Arrivals(r)
  \/ \E actor \in Users : GetBalance(r, actor)
  \/ \E actor \in Users \cup {NoActor} : WalletGetBalance(r, actor)
  \/ \E actor \in Users, k \in SkillIds, p \in Prices :
       UpdateSkillRead(r, actor, k, p)
  \/ \E actor \in Users, k \in SkillIds : DeleteSkillRead(r, actor, k)
  \/ \E actor \in Users : DeleteUser(r, actor)

AllSteps(r) ==
  \/ Steps(r)
  \/ WalletCreate(r) \/ UpdateSkillWrite(r) \/ DeleteSkillWrite(r)

NextAll ==
  /\ \E r \in Slots : (Quiescent /\ AllArrivals(r)) \/ AllSteps(r)
  /\ UNCHANGED mm

SpecAll == Init /\ [][NextAll]_vars

\* the connection's creation and cancellation alone (each is answered
\* before the next request is taken)
LifeArrivals(r) ==
  \/ \E actor \in Users, k \in SkillIds : CreateConnection(r, actor, k)
  \/ \E actor \in Users, id \in ConnIds : CancelConnection(r, actor, id)

NextLife == (\E r \in Slots : LifeArrivals(r)) /\ UNCHANGED mm

SpecLife == Init /\ [][NextLife]_vars

\* MaxEdits skill edits, then Create requests, one after the other
CreateArrivals(r) ==
  \/ /\ MaxEdits <= nreq
     /\ \E actor \in Users, k \in SkillIds : CreateConnection(r, actor, k)
  \/ /\ nreq < MaxEdits
     /\ \E actor \in Users, k \in SkillIds, p \in Prices :
          UpdateSkillRead(r, actor, k, p)

NextCreate ==
  /\ \E r \in Slots :
       \/ Quiescent /\ CreateArrivals(r)
       \/ UpdateSkillWrite(r)
  /\ UNCHANGED mm

SpecCreate == Init /\ [][NextCreate]_vars

\* MaxEdits skill edits, then MaxSerial UpdateStatus requests, one after
\* the other
PriceArrivals(r) ==
  \/ /\ MaxEdits <= nreq /\ nreq < MaxEdits + MaxSerial
     /\ PutArrivals(r)
  \/ /\ nreq < MaxEdits
     /\ \E actor \in Users, k \in SkillIds, p \in Prices :
          UpdateSkillRead(r, actor, k, p)

NextPrice ==
  /\ \E r \in Slots :
       \/ Quiescent /\ PriceArrivals(r)
       \/ ConnSteps(r) \/ UpdateSkillWrite(r)
  /\ UNCHANGED mm

SpecPrice == Init /\ [][NextPrice]_vars

\* ---------------------------------------------------------------- claims
Learner == "u1"
Teacher == "u2"

\* the request answered last was an acceptance by the connection's teacher
LastAccept ==
  /\ last.q.op \in {"put", "putW"}
  /\ last.q.newStatus = "accepted"
  /\ last.q.learner # "-"
  /\ last.q.actor = last.q.teacher

\* ... and it moved credits and answered 200
LastTransferOk == LastAccept /\ last.q.outcome = "ok" /\ last.h.debited

\* the mounted generation's balance of u, 0 when u has no wallet row
Held(u) == IF Balance(u) = NoWallet THEN 0 ELSE Balance(u)
Opened(u) == IF opening.bal[u] = NoWallet THEN 0 ELSE opening.bal[u]

\* net committed learner debits for connection i
Charged(i) == ledger[i].debits - ledger[i].restores

\* C1 (as claimed): for an acceptance served alone whose credit transfer
\* succeeds, the learner's balance plus the teacher's balance after the
\* request equals their sum before it.
C1_Conservation ==
  LastTransferOk =>
    last.h.postL + last.h.postT = last.h.preL + last.h.preT

\* C2 (as claimed): no sequence of requests drives a balance below 0, and an
\* acceptance whose price exceeds the learner's balance changes no balance.
C2_NonNegative ==
  /\ \A u \in Users : Balance(u) = NoWallet \/ Balance(u) >= 0
  /\ (LastAccept /\ last.h.preL # NoWallet /\ last.q.price > last.h.preL)
       => (last.h.postL = last.h.preL /\ last.h.postT = last.h.preT)

\* C3 (as claimed): with only connection requests running on the handler
\* that checks sufficiency, the two connections stored at the start (same
\* learner, same price) are not both charged when the learner's opening
\* balance covers only one price.
C3_NoStaleDoubleAccept ==
  (/\ backend = "users"
   /\ Opened(Learner) >= opening.price
   /\ Opened(Learner) < 2 * opening.price)
    => ~(Charged(1) >= 1 /\ Charged(2) >= 1)

\* C4 (as claimed): with only connection requests running on the handler
\* that moves credits between two accounts, in every quiescent state the
\* sum of all balances equals the sum at the start, no store call having
\* failed.
C4_NoDoubleSpend ==
  (backend = "users" /\ faults = 0 /\ Quiescent)
    => Held(Learner) + Held(Teacher) = Opened(Learner) + Opened(Teacher)

\* C5 (as claimed): accept requests on one connection, one after the other
\* or overlapping, with no other status written to it, charge the learner
\* at most once (the price being non-zero).
C5_AcceptOnce ==
  \A i \in ConnIds :
    (opening.price > 0 /\ ledger[i].written \subseteq {"accepted"})
      => Charged(i) <= 1

\* C6 (as claimed): whatever UpdateStatus requests are served one after the
\* other, a connection (of non-zero price) is charged at most once, and a
\* charged connection's transfer was started only from status pending.
C6_TransferOnlyFromPending ==
  (backend = "users" /\ opening.price > 0) =>
    \A i \in ConnIds :
      /\ ledger[i].debits <= 1
      /\ ledger[i].debits >= 1 => ledger[i].from \subseteq {"pending"}

\* C7 (as claimed): the teacher accepting a pending connection whose price
\* exceeds the learner's balance gets the insufficient-funds answer (a store
\* fault aside), and balances, log and status are as before.
C7_InsufficientFunds ==
  (LastAccept /\ last.h.preStatus = "pending" /\ last.h.preL # NoWallet
     /\ last.q.price > last.h.preL)
    => /\ faults = 0 => last.q.outcome = "insufficient"
       /\ last.q.outcome # "ok"
       /\ last.h.postL = last.h.preL /\ last.h.postT = last.h.preT
       /\ last.h.postTx = last.h.preTx
       /\ last.h.postStatus = "pending"

\* the two rows that ended the log when the acceptance answered last
\* responded are the pair for its connection
PairLogged ==
  /\ last.h.postTx >= 2
  /\ txlog[last.h.postTx - 1] =
       Tx(last.q.learner, "spend", last.q.price, last.q.id)
  /\ txlog[last.h.postTx] =
       Tx(last.q.teacher, "refund", last.q.price, last.q.id)

\* C8 (as claimed): an acceptance that transfers and answers 200 has
\* appended exactly the spend / earning pair for its connection; an
\* acceptance that fails has appended nothing.
C8_TransactionPairing ==
  /\ LastTransferOk => (last.h.ntx = 2 /\ PairLogged)
  /\ (LastAccept /\ last.q.outcome # "ok") => last.h.ntx = 0

\* the acceptance answered last failed at the teacher's credit after the
\* learner's debit was committed
LastCreditFailed ==
  /\ LastAccept /\ last.q.op = "put"
  /\ last.h.debited /\ ~last.h.credited

Compensated ==
  /\ last.h.postL = last.h.preL
  /\ last.h.postT = last.h.preT
  /\ last.h.postTx = last.h.preTx
  /\ last.h.postStatus = last.h.preStatus

C10_DoubleFaultDistinct ==
  (LastCreditFailed /\ last.h.restoreFailed /\ last.q.price > 0)
    => last.q.outcome # RollbackOutcome(FALSE)

\* the step answers a request at its first await: the request is in last'
AnsweredAtOnce == nreq' # nreq /\ req' = req

\* the request answered last was the teacher's acceptance of a pending
\* connection whose (non-zero) price the learner's balance covered, and it
\* answered 200, no store call having failed
LastAcceptCovered ==
  /\ LastAccept /\ last.q.outcome = "ok"
  /\ last.h.preStatus = "pending"
  /\ last.h.preL # NoWallet /\ last.h.preT # NoWallet
  /\ last.h.preL >= last.q.price
  /\ last.q.price > 0
  /\ faults = 0

\* C11 (as claimed): a balance query that follows the acceptance of a
\* pending connection of price p, the learner's balance b covering p,
\* answers b - p to the learner and the teacher's previous balance + p to
\* the teacher.
C11_BalancesAfterAccept ==
  [][(/\ LastAcceptCovered
      /\ AnsweredAtOnce
      /\ last'.q.op \in {"balance", "balanceW"}
      /\ last'.q.outcome = "ok")
       => /\ last'.q.actor = last.q.learner
               => last'.q.balance = last.h.preL - last.q.price
          /\ last'.q.actor = last.q.teacher
               => last'.q.balance = last.h.preT + last.q.price]_vars

\* C12 (as claimed): the only changes of a stored connection's status are
\* pending to accepted, pending to rejected and pending to completed.
C12_TerminalStatuses ==
  [][\A i \in ConnIds :
       (/\ connections[i] # NoConn /\ connections'[i] # NoConn
        /\ connections'[i].status # connections[i].status)
         => /\ connections[i].status = "pending"
            /\ connections'[i].status \in {"accepted", "rejected",
                                           "completed"}]_vars

\* C13: an UpdateStatus request whose actor is not the connection's teacher
\* (the row having been read) never gets past the actor check, is answered
\* Forbidden, and leaves the connection's status, the balances and the
\* transaction log as they were.
C13_OnlyTeacherUpdates ==
  /\ \A r \in Slots :
       req[r].op \in {"put", "putW"} => req[r].actor = req[r].teacher
  /\ (/\ last.q.op \in {"put", "putW"}
      /\ last.q.learner # "-"
      /\ last.q.actor # last.q.teacher)
       => /\ last.q.outcome = "forbidden"
          /\ last.h.postStatus = last.h.preStatus
          /\ last.h.postL = last.h.preL /\ last.h.postT = last.h.preT
          /\ last.h.postTx = last.h.preTx

\* the learner asked for accepted on their own connection and was refused
C13_Witness ==
  /\ last.q.op \in {"put", "putW"}
  /\ last.q.actor = last.q.learner
  /\ last.q.newStatus = "accepted"
  /\ last.q.outcome = "forbidden"

\* C14 (as claimed): a Cancel by the learner of a connection whose status is
\* accepted, rejected or completed is refused, and the record remains.
C14_CancelOnlyPending ==
  [][(/\ AnsweredAtOnce
      /\ last'.q.op = "delete"
      /\ connections[last'.q.id] # NoConn
      /\ connections[last'.q.id].status \in {"accepted", "rejected",
                                             "completed"}
      /\ last'.q.actor = connections[last'.q.id].learner)
       => /\ last'.q.outcome # "ok"
          /\ connections'[last'.q.id] = connections[last'.q.id]]_vars

\* C15: a Cancel served without a store failure removes a pending connection
\* when its learner asks, is answered NotFound when the record is not there
\* (as after a first Cancel), and is answered Forbidden, the record staying,
\* when anyone else asks; no Cancel changes a balance or the log.
C15_Cancel ==
  [][(AnsweredAtOnce /\ last'.q.op = "delete")
       => LET c == connections[last'.q.id]
          IN  /\ credits' = credits /\ wallets' = wallets /\ txlog' = txlog
              /\ faults' = faults =>
                   /\ c = NoConn => last'.q.outcome = "notFound"
                   /\ (c # NoConn /\ last'.q.actor # c.learner)
                        => /\ last'.q.outcome = "forbidden"
                           /\ connections' = connections
                   /\ (c # NoConn /\ last'.q.actor = c.learner
                         /\ c.status = "pending")
                        => /\ last'.q.outcome = "ok"
                           /\ connections'[last'.q.id] = NoConn]_vars

\* the learner's Cancel of a connection stored at the start is answered
\* NotFound: the record was removed by an earlier Cancel
C15_Witness ==
  /\ last.q.op = "delete" /\ last.q.outcome = "notFound"
  /\ last.q.actor = Learner
  /\ last.q.id <= InitConns
  /\ connections[last.q.id] = NoConn
  /\ faults = 0

\* C16: a Create by the owner of the skill (the skill having been read) is
\* answered SelfConnection and stores nothing, whatever the skill's price;
\* and no stored connection has its teacher as its learner.
C16_NoSelfDealing ==
  /\ [](\A i \in ConnIds :
         connections[i] # NoConn
           => connections[i].teacher # connections[i].learner)
  /\ [][(/\ AnsweredAtOnce
         /\ last'.q.op = "post"
         /\ faults' = faults
         /\ \E k \in SkillIds :
              /\ last'.q.id = k
              /\ skills[k] # NoSkill /\ skills[k].owner = last'.q.actor)
          => /\ last'.q.outcome = "selfConnection"
             /\ connections' = connections /\ nextId' = nextId]_vars

\* the owner of the stored skill asked to connect to it and was refused
C16_Witness ==
  /\ last.q.op = "post" /\ last.q.outcome = "selfConnection"
  /\ last.q.actor = skills[1].owner
  /\ \E i \in ConnIds : connections[i] # NoConn

\* the size of a change
Abs(n) == IF n < 0 THEN -n ELSE n

\* C17: a stored connection's price never changes, and every balance change
\* made while UpdateStatus requests and skill edits are served one after the
\* other is a change by the price stored on the connection being updated,
\* whatever the skill's price has become.
C17_PriceSnapshot ==
  /\ [][\A i \in ConnIds :
          (connections[i] # NoConn /\ connections'[i] # NoConn)
            => connections'[i].price = connections[i].price]_vars
  /\ [][\A u \in Users :
          BalanceNext(u) # Balance(u)
            => \E r \in Slots :
                 /\ req[r].op \in {"put", "putW"}
                 /\ connections[req[r].id] # NoConn
                 /\ Abs(BalanceNext(u) - Balance(u)) =
                      connections[req[r].id].price]_vars

\* an acceptance moved the connection's price after the skill's price was
\* edited to another value
C17_Witness ==
  /\ LastTransferOk
  /\ last.q.price > 0
  /\ connections[last.q.id] # NoConn
  /\ skills[connections[last.q.id].skill].price # last.q.price
  /\ last.h.postL = last.h.preL - last.q.price

\* C18 (as claimed): every record the users.credits generation writes to
\* the transaction log has amount > 0, whatever price the skill schema
\* admitted for the connection.
C18_PositiveAmounts ==
  backend = "users" => \A n \in 1..Len(txlog) : txlog[n].amount > 0

\* what the records of log say was added to (purchase, earning) and taken
\* from (spend) the account of u; earnings are stored with type "refund"
RECURSIVE LogSum(_, _)
LogSum(log, u) ==
  IF log = << >> THEN 0
  ELSE LET t == Head(log)
           d == IF t.user # u THEN 0
                ELSE IF t.type = "spend" THEN -t.amount
                ELSE t.amount
       IN  d + LogSum(Tail(log), u)

\* C19 (as claimed): in every quiescent state the balance of every account
\* that still exists is its initial balance plus what the log records for it.
C19_LogExplainsBalances ==
  Quiescent =>
    \A u \in Users :
      credits[u] # NoUser => Held(u) = Opened(u) + LogSum(txlog, u)

\* C20 (as claimed): the log after every step extends the log before it.
C20_AppendOnly ==
  [][/\ Len(txlog') >= Len(txlog)
     /\ SubSeq(txlog', 1, Len(txlog)) = txlog]_vars

\* C21: an UpdateStatus request by the teacher with new status rejected or
\* completed never enters the credit transfer, and when it is answered the
\* balances and the transaction log are as they were when it read the row.
C21_NoLedgerOnRejectComplete ==
  /\ \A r \in Slots :
       (/\ req[r].op \in {"put", "putW"}
        /\ req[r].newStatus \in {"rejected", "completed"})
         => /\ req[r].pc = "updateStatus"
            /\ ~hist[r].debited /\ ~hist[r].credited /\ hist[r].ntx = 0
  /\ (/\ last.q.op \in {"put", "putW"}
      /\ last.q.learner # "-"
      /\ last.q.actor = last.q.teacher
      /\ last.q.newStatus \in {"rejected", "completed"})
       => /\ last.h.postL = last.h.preL /\ last.h.postT = last.h.preT
          /\ last.h.postTx = last.h.preTx
          /\ ~last.h.debited /\ ~last.h.credited /\ last.h.ntx = 0

\* the teacher rejected a pending connection and the status was written
C21_Witness ==
  /\ last.q.op \in {"put", "putW"}
  /\ last.q.actor = last.q.teacher
  /\ last.q.newStatus = "rejected"
  /\ last.q.outcome = "ok"
  /\ last.h.preStatus = "pending" /\ last.h.postStatus = "rejected"

\* ------------------------------------------ services/matchmaking.js
\* The matchmaking service only reads the skills table; the rows it reads
\* (tags, owner, title, description) are carried in mm, and the stores of
\* the other routes stay at rest while it runs.
StoreAtRest ==
  /\ backend = "users"
  /\ skills = [k \in SkillIds |-> NoSkill]
  /\ connections = [i \in ConnIds |-> NoConn]
  /\ nextId = 1
  /\ credits = [u \in Users |-> 0]
  /\ wallets = [u \in Users |-> NoWallet]
  /\ txlog = << >>
  /\ req = [r \in Slots |-> Idle]
  /\ hist = [r \in Slots |-> NoHist]
  /\ last = [q |-> Idle, h |-> NoHist]
  /\ ledger = [i \in ConnIds |-> NoLedger]
  /\ opening = [bal |-> [u \in Users |-> 0], price |-> 0]
  /\ nreq = 0
  /\ faults = 0

StoreUntouched ==
  UNCHANGED <<backend, skills, connections, nextId, credits, wallets, txlog,
              req, hist, last, ledger, opening, nreq, faults>>

\* tags as users type them; "Baking" and "baking" differ only in case
Tags == {"cooking", "baking", "Baking", "photography"}

\* all lists of at most n elements of S
RECURSIVE ListsUpTo(_, _)
ListsUpTo(S, n) ==
  IF n = 0 THEN {<< >>}
  ELSE LET shorter == ListsUpTo(S, n - 1)
       IN  shorter \cup {Append(l, t) : l \in shorter, t \in S}

TagLists == ListsUpTo(Tags, MaxTags)

\* String.prototype.toLowerCase on the tags of Tags
ToLowerCaseKeep(t) == t

ToLowerCase(t) == IF t = "Baking" THEN "baking" ELSE t

\* new Set(list.map(t => t.toLowerCase()))  (lines 9-10)
NewSet(list) == {ToLowerCase(list[i]) : i \in DOMAIN list}

\* the loop of line 16: how many tags of setA setB has
CommonCount(setA, setB) == Cardinality({tag \in setA : setB \cap {tag} # {}})

\* the radicand of line 19
DenominatorLeftOnly(sizeA, sizeB) == sizeA * sizeA

Denominator(sizeA, sizeB) == sizeA * sizeB

\* A score is the real number num / sqrt(rad), kept exactly as the pair
\* (num, rad), rad > 0.
Zero == [num |-> 0, rad |-> 1]

\* calculateTagOverlapScore (lines 8-20)
calculateTagOverlapScore(skillTagsA, skillTagsB) ==
  LET setA == NewSet(skillTagsA)
      setB == NewSet(skillTagsB)
  IN  IF Cardinality(setA) = 0 \/ Cardinality(setB) = 0
        THEN Zero
        ELSE [num |-> CommonCount(setA, setB),
              rad |-> Denominator(Cardinality(setA), Cardinality(setB))]

\* comparisons of two scores (both are >= 0, so squares compare alike)
ScoreEq(x, y)  == x.num * x.num * y.rad = y.num * y.num * x.rad
ScoreGeq(x, y) == x.num * x.num * y.rad >= y.num * y.num * x.rad

\* the arguments of a call of calculateTagOverlapScore
InitScore ==
  /\ StoreAtRest
  /\ \E a \in TagLists, b \in TagLists :
       mm = [op |-> "args", a |-> a, b |-> b, score |-> Zero,
             reverse |-> Zero]

\* calculateTagOverlapScore(a, b)
Score ==
  /\ mm.op = "args"
  /\ mm' = [mm EXCEPT !.op = "scored",
                      !.score = calculateTagOverlapScore(mm.a, mm.b)]
  /\ StoreUntouched

\* calculateTagOverlapScore(b, a), the same lists the other way round
ScoreReverse ==
  /\ mm.op = "scored"
  /\ mm' = [mm EXCEPT !.op = "both",
                      !.reverse = calculateTagOverlapScore(mm.b, mm.a)]
  /\ StoreUntouched

NextScore == Score \/ ScoreReverse
SpecScore == InitScore /\ [][NextScore]_vars

\* what the claims call "the same tag": equal up to letter case
SameTag(x, y) == x = y \/ {x, y} = {"baking", "Baking"}
TagClass(t) == {u \in Tags : SameTag(t, u)}
Classes(list) == {TagClass(list[i]) : i \in DOMAIN list}

\* C22: the tag overlap score of (A, B) equals that of (B, A); it is 0 when
\* either list is empty, and 1 when both lists are the same non-empty tag
\* set.
C22_TagOverlapSymmetry ==
  /\ mm.op = "both" => ScoreEq(mm.score, mm.reverse)
  /\ (mm.op \in {"scored", "both"} /\ (mm.a = << >> \/ mm.b = << >>))
       => mm.score.num = 0
  /\ (/\ mm.op \in {"scored", "both"} /\ mm.a # << >>
      /\ Classes(mm.a) = Classes(mm.b))
       => mm.score.num * mm.score.num = mm.score.rad

C22_Witness ==
  /\ mm.op = "both"
  /\ Len(mm.a) = 1 /\ Len(mm.b) = 2 /\ mm.a[1] = mm.b[2]
  /\ mm.b[1] # mm.b[2] /\ ~SameTag(mm.b[1], mm.b[2])
  /\ mm.score.num = 1 /\ mm.score.rad = 2
  /\ mm.reverse = mm.score

\* C23: with A and B the tag sets after lower-casing and removing
\* duplicates, the score s satisfies s*s*|A|*|B| = |A intersect B|^2 when
\* both are non-empty, and 0 <= s <= 1 always; tags differing only in letter
\* case are the same tag, and [cooking, baking] against
\* [baking, photography] scores 1/2.
C23_TagOverlapValue ==
  mm.op \in {"scored", "both"} =>
    LET A == Classes(mm.a)
        B == Classes(mm.b)
        common == Cardinality(A \cap B)
        s == mm.score
    IN  /\ (A # {} /\ B # {})
             => s.num * s.num * Cardinality(A) * Cardinality(B)
                  = common * common * s.rad
        /\ s.num >= 0 /\ s.rad > 0 /\ s.num * s.num <= s.rad
        /\ (/\ A = {TagClass("cooking"), TagClass("baking")}
            /\ B = {TagClass("baking"), TagClass("photography")})
             => 4 * s.num * s.num = s.rad

C23_Witness ==
  /\ mm.op = "scored"
  /\ mm.a = <<"cooking", "Baking">> /\ mm.b = <<"baking", "photography">>
  /\ mm.score = [num |-> 1, rad |-> 4]

\* ------------------------------------------ findComplementarySkills
\* the skills table as the service sees it: id -> [owner, tags]
CatalogIds   == 1..MaxCatalog
CatalogTags  == {<< >>, <<"baking">>, <<"Baking", "cooking">>}
Catalogs     == [CatalogIds -> [owner : Users, tags : CatalogTags]]
Limits       == -1..MaxLimit      \* parseInt(req.query.limit)
MinScores    == {Zero, [num |-> 1, rad |-> 1]}
PoolCap      == 500               \* .limit(500), line 49

Min(a, b) == IF a <= b THEN a ELSE b
Max(a, b) == IF a >= b THEN a ELSE b

\* the orders in which the store may return the rows of S (no .order())
Perms(S) ==
  {p \in [1..Cardinality(S) -> S] : \A i, j \in DOMAIN p : p[i] = p[j] => i = j}

\* Array.prototype.slice(0, limit): a negative limit counts from the end
Slice(list, limit) ==
  LET n == Len(list)
      to == IF limit >= 0 THEN Min(limit, n) ELSE Max(n + limit, 0)
  IN  SubSeq(list, 1, to)

\* .filter(c => c.score >= minScore), line 60
RECURSIVE Filter(_, _)
Filter(list, minScore) ==
  IF list = << >> THEN << >>
  ELSE LET rest == Filter(Tail(list), minScore)
       IN  IF ScoreGeq(Head(list).score, minScore)
             THEN <<Head(list)>> \o rest ELSE rest

\* .sort((a, b) => b.score - a.score), line 61: stable, descending
RECURSIVE InsertByScore(_, _)
InsertByScore(sorted, c) ==
  IF sorted = << >> THEN <<c>>
  ELSE IF ScoreGeq(Head(sorted).score, c.score)
         THEN <<Head(sorted)>> \o InsertByScore(Tail(sorted), c)
         ELSE <<c>> \o sorted

RECURSIVE SortByScore(_)
SortByScore(list) ==
  IF list = << >> THEN << >>
  ELSE InsertByScore(SortByScore(SubSeq(list, 1, Len(list) - 1)),
                     list[Len(list)])

\* the arguments of a call of findComplementarySkills; skillId 0 is the id
\* of no skill
InitMatch ==
  /\ StoreAtRest
  /\ \E cat \in Catalogs, id \in {0, 1}, limit \in Limits, ms \in MinScores :
       mm = [op |-> "args", catalog |-> cat, skillId |-> id, limit |-> limit,
             minScore |-> ms, pool |-> << >>, result |-> << >>,
             error |-> "-"]

\* lines 33-41: fetch the reference skill
FetchReference ==
  /\ mm.op = "args"
  /\ \E f \in BOOLEAN :
       mm' = IF f \/ mm.skillId \notin CatalogIds
               THEN [mm EXCEPT !.op = "thrown", !.error = "Skill not found"]
               ELSE [mm EXCEPT !.op = "reference"]
  /\ StoreUntouched

\* lines 44-51: fetch the skills of other owners, at most PoolCap of them
FetchCandidates ==
  /\ mm.op = "reference"
  /\ LET owner == mm.catalog[mm.skillId].owner
         others == {k \in CatalogIds : mm.catalog[k].owner # owner}
     IN  \E f \in BOOLEAN, p \in Perms(others) :
           mm' = IF f THEN [mm EXCEPT !.op = "thrown", !.error = "store"]
                 ELSE [mm EXCEPT !.op = "candidates",
                          !.pool = SubSeq(p, 1, Min(Len(p), PoolCap))]
  /\ StoreUntouched

\* lines 54-64: score, filter, sort, slice
Rank ==
  /\ mm.op = "candidates"
  /\ LET ref == mm.catalog[mm.skillId]
         scored == [i \in DOMAIN mm.pool |->
                      [id |-> mm.pool[i],
                       owner |-> mm.catalog[mm.pool[i]].owner,
                       score |-> calculateTagOverlapScore(
                                   ref.tags, mm.catalog[mm.pool[i]].tags)]]
     IN  mm' = [mm EXCEPT !.op = "returned",
                  !.result = Slice(SortByScore(Filter(scored, mm.minScore)),
                                   mm.limit)]
  /\ StoreUntouched

NextMatch == FetchReference \/ FetchCandidates \/ Rank
SpecMatch == InitMatch /\ [][NextMatch]_vars

\* C24: findComplementarySkills fails with not-found when the reference
\* skill is absent; otherwise its result holds no skill of the reference
\* skill's owner, only candidates whose score with the reference skill is
\* >= minScore, in non-increasing order of score, and at most limit entries
\* (none for a negative limit).
C24_Complementary ==
  /\ (mm.op \in {"thrown", "returned"} /\ mm.skillId \notin CatalogIds)
       => mm.op = "thrown" /\ mm.error = "Skill not found"
  /\ mm.op = "returned" =>
       LET ref == mm.catalog[mm.skillId]
           res == mm.result
       IN  /\ \A i \in DOMAIN res :
                /\ mm.catalog[res[i].id].owner # ref.owner
                /\ res[i].id # mm.skillId
                /\ ScoreEq(res[i].score,
                           calculateTagOverlapScore(
                             ref.tags, mm.catalog[res[i].id].tags))
                /\ ScoreGeq(res[i].score, mm.minScore)
           /\ \A i, j \in DOMAIN res :
                i < j => ScoreGeq(res[i].score, res[j].score)
           /\ Len(res) <= Max(mm.limit, 0)

\* ------------------------------------------ searchSkillsByQuery
\* Texts are lists of characters.  A description may be null: it is kept as
\* a set holding the text, or nothing.
Titles       == {<<"A", "b">>, <<"b">>}
Descriptions == {{}, {<<"a">>}}
Queries      == {<<"a">>, <<"b">>, <<"_">>}
SearchLimits == 0..MaxLimit       \* candidatesLimit of the request body
Listings     == [CatalogIds ->
                   [title : Titles, description : Descriptions,
                    tags : CatalogTags]]

LowerChar(c) == IF c = "A" THEN "a" ELSE c
Lower(text)  == [i \in DOMAIN text |-> LowerChar(text[i])]

\* String.prototype.includes
Includes(text, part) ==
  \E i \in 1..(Len(text) - Len(part) + 1) :
    SubSeq(text, i, i + Len(part) - 1) = part

\* the store's ILIKE: % stands for any text, _ for any one character,
\* letters match without regard to case
RECURSIVE Ilike(_, _)
Ilike(text, pattern) ==
  IF pattern = << >> THEN text = << >>
  ELSE IF Head(pattern) = "%"
    THEN \/ Ilike(text, Tail(pattern))
         \/ text # << >> /\ Ilike(Tail(text), pattern)
    ELSE /\ text # << >>
         /\ Head(pattern) = "_" \/ LowerChar(Head(pattern)) = LowerChar(Head(text))
         /\ Ilike(Tail(text), Tail(pattern))

\* the subsets of S the store may return under .limit(n) with no .order()
Limited(S, n) == {T \in SUBSET S : Cardinality(T) = Min(n, Cardinality(S))}

\* lines 87-91: tag count, plus 2 when the description includes the query
SearchScore(skill, query) ==
  Len(skill.tags)
    + (IF \E d \in skill.description : Includes(Lower(d), Lower(query))
         THEN 2 ELSE 0)

\* .sort((a, b) => b.score - a.score), line 94: stable, descending
RECURSIVE InsertByPoints(_, _)
InsertByPoints(sorted, c) ==
  IF sorted = << >> THEN <<c>>
  ELSE IF Head(sorted).score >= c.score
         THEN <<Head(sorted)>> \o InsertByPoints(Tail(sorted), c)
         ELSE <<c>> \o sorted

RECURSIVE SortByPoints(_)
SortByPoints(list) ==
  IF list = << >> THEN << >>
  ELSE InsertByPoints(SortByPoints(SubSeq(list, 1, Len(list) - 1)),
                      list[Len(list)])

\* the arguments of a call of searchSkillsByQuery
InitSearch ==
  /\ StoreAtRest
  /\ \E cat \in Listings, q \in Queries, limit \in SearchLimits :
       mm = [op |-> "args", catalog |-> cat, query |-> q, limit |-> limit,
             pool |-> << >>, result |-> << >>, error |-> "-"]

\* lines 77-83: the store matches the titles and cuts the rows to limit
FetchMatches ==
  /\ mm.op = "args"
  /\ LET matching == {k \in CatalogIds :
                        Ilike(mm.catalog[k].title,
                              <<"%">> \o mm.query \o <<"%">>)}
     IN  \E f \in BOOLEAN, T \in Limited(matching, mm.limit) :
           \E p \in Perms(T) :
             mm' = IF f THEN [mm EXCEPT !.op = "thrown", !.error = "store"]
                   ELSE [mm EXCEPT !.op = "candidates", !.pool = p]
  /\ StoreUntouched

\* lines 86-94: score and sort what the store returned
RankMatches ==
  /\ mm.op = "candidates"
  /\ LET scored == [i \in DOMAIN mm.pool |->
                      [id |-> mm.pool[i],
                       score |-> SearchScore(mm.catalog[mm.pool[i]],
                                             mm.query)]]
     IN  mm' = [mm EXCEPT !.op = "returned", !.result = SortByPoints(scored)]
  /\ StoreUntouched

NextSearch == FetchMatches \/ RankMatches
SpecSearch == InitSearch /\ [][NextSearch]_vars

\* the title contains the query, letters compared without regard to case
TitleContains(skill, query) == Includes(Lower(skill.title), Lower(query))

\* the score the claim gives a skill
ClaimedScore(skill, query) ==
  Len(skill.tags)
    + (IF \E d \in skill.description : Includes(Lower(d), Lower(query))
         THEN 2 ELSE 0)

\* C25: searchSkillsByQuery (for a query of letters) returns skills whose
\* title contains the query, each scored as tag count plus 2 if its
\* description contains the query, in descending order of score and at most
\* limit of them; these are the limit highest-scoring title-matching skills:
\* no title-matching skill left out scores strictly higher than one
\* returned, and none is left out while the result is shorter than limit.
C25_SearchTopLimit ==
  (mm.op = "returned" /\ "_" \notin {mm.query[i] : i \in DOMAIN mm.query}) =>
    LET res == mm.result
        ids == {res[i].id : i \in DOMAIN res}
        leftOut == {k \in CatalogIds \ ids :
                      TitleContains(mm.catalog[k], mm.query)}
    IN  /\ \A i \in DOMAIN res :
             /\ TitleContains(mm.catalog[res[i].id], mm.query)
             /\ res[i].score = ClaimedScore(mm.catalog[res[i].id], mm.query)
        /\ \A i, j \in DOMAIN res : i < j => res[i].score >= res[j].score
        /\ Len(res) <= mm.limit
        /\ leftOut # {} => Len(res) = mm.limit
        /\ \A k \in leftOut : \A i \in DOMAIN res :
             ClaimedScore(mm.catalog[k], mm.query) <= res[i].score

\* ------------------------------------------ termination of an acceptance
\* Each await of the handler returns (the store answers every statement,
\* with a result or a fault), so a request that is in flight takes its next
\* step.
SpecPutFair ==
  SpecPut /\ \A r \in Slots : WF_vars(ConnSteps(r) /\ UNCHANGED mm)

\* slot r serves an acceptance in the part_001 handler that has passed the
\* checks of lines 114-134 and is inside the transfer
Transferring(r) ==
  /\ req[r].op = "put" /\ req[r].pc # "idle"
  /\ req[r].newStatus = "accepted" /\ req[r].status # "accepted"

\* the answers the handler gives when a store statement failed
FaultOutcomes ==
  {"fetchLearnerFailed", "fetchTeacherFailed", "deductFailed",
   "addTeacherFailed", "error"}

\* the latest answered request was such an acceptance
LastTransfer ==
  /\ last.q.op = "put" /\ last.q.learner # "-"
  /\ last.q.actor = last.q.teacher
  /\ last.q.newStatus = "accepted" /\ last.h.preStatus # "accepted"

InTransfer(r) ==
  /\ req[r].op \in {"put", "putW"} /\ req[r].pc # "idle"
  /\ req[r].newStatus = "accepted" /\ req[r].status # "accepted"
  /\ req[r].price > 0 /\ hist[r].preL >= req[r].price

\* C27: within one acceptance transfer the steps come in the order debit
\* learner, credit teacher, append the transaction records, persist status
\* accepted: while a single transfer is in flight the two balances sum to at
\* most their sum before it, the teacher is not credited before the learner
\* is debited, no transaction record of the transfer exists before both
\* balance writes, and the status is not accepted before both balance
\* writes.
C27_TransferOrder ==
  \A r \in Slots :
    (InTransfer(r) /\ faults = 0) =>
      /\ Balance(req[r].learner) + Balance(req[r].teacher)
           <= hist[r].preL + hist[r].preT
      /\ hist[r].credited => hist[r].debited
      /\ hist[r].ntx > 0 => hist[r].debited /\ hist[r].credited
      /\ connections[req[r].id].status = "accepted"
           => hist[r].debited /\ hist[r].credited

\* C28: in every quiescent state a connection has been charged exactly when
\* it is accepted, store failures included: after an acceptance served by
\* the part_001 handler, the transfer went through (learner debited and
\* teacher credited the price) if and only if the stored status is
\* accepted.
C28_ChargedIffAccepted ==
  (/\ Quiescent /\ backend = "users"
   /\ LastTransfer /\ last.q.price > 0) =>
     LET moved == /\ last.h.postL = last.h.preL - last.q.price
                  /\ last.h.postT = last.h.preT + last.q.price
     IN  moved <=> last.h.postStatus = "accepted"

\* ------------------------------------------ PUT /:id, any request body
\* the status the body carries: one of the four, none at all, or a string
\* that is none of the four
BodyStatuses == Statuses \cup {Undefined, "archived"}

\* updateConnectionSchema.validate (part_001 lines 13-15, 114): the key
\* status is optional; when present it must be one of the four
Valid(st) == st \in Statuses \/ st = Undefined

\* line 115: a body that fails validation is answered 400 at once
ValidationError(r, actor, id, st) ==
  /\ backend = "users"
  /\ ~Valid(st)
  /\ Arrive(r)
  /\ UNCHANGED <<store, backend, opening, ledger, faults>>
  /\ Respond(r, [Idle EXCEPT !.op = "put", !.actor = actor, !.id = id,
                             !.newStatus = st],
             NoHist, "validation")

BodyArrivals(r) ==
  \E actor \in Users, id \in ConnIds, st \in BodyStatuses :
    \/ ValidationError(r, actor, id, st)
    \/ Valid(st) /\ GetConnection(r, actor, id, st)

BodySteps(r) ==
  \/ GetLearner(r) \/ GetTeacher(r) \/ DeductLearner(r) \/ AddTeacher(r)
  \/ Rollback(r) \/ RecordSpend(r) \/ RecordEarning(r) \/ UpdateStatus(r)

InitBody == Init /\ backend = "users"

NextBody ==
  /\ \E r \in Slots :
       \/ Quiescent /\ nreq < MaxSerial /\ BodyArrivals(r)
       \/ BodySteps(r)
  /\ UNCHANGED mm

SpecBody == InitBody /\ [][NextBody]_vars

\* C29: an UpdateStatus request whose status is missing or is none of
\* pending, accepted, rejected, completed is answered with a validation
\* error before any store operation: the connection is not read, and no
\* statement is sent to the connections table, the balances or the log.
\* (Stated for requests sent by the teacher of a stored connection.)
C29_ValidationFirst ==
  (/\ last.q.op = "put" /\ last.q.newStatus \notin Statuses
   /\ connections[last.q.id] # NoConn
   /\ connections[last.q.id].teacher = last.q.actor
   /\ faults = 0) =>
    /\ last.q.outcome = "validation"
    /\ last.q.learner = "-"
    /\ ~last.h.statusWritten /\ ~last.h.debited /\ ~last.h.credited
    /\ last.h.ntx = 0

\* C30: a Create by a learner on a stored skill owned by someone else (no
\* store statement failing) stores exactly one new connection, with status
\* pending, teacher the skill's owner and price the skill's price at that
\* moment; a Create on an absent skill is answered SkillNotFound and stores
\* nothing; no Create changes a balance or the transaction log.
C30_Create ==
  [][(AnsweredAtOnce /\ last'.q.op = "post") =>
       LET k == last'.q.id
           actor == last'.q.actor
           skill == skills[k]
       IN  /\ credits' = credits /\ wallets' = wallets /\ txlog' = txlog
           /\ skill = NoSkill =>
                /\ last'.q.outcome = "skillNotFound"
                /\ connections' = connections
           /\ (skill # NoSkill /\ skill.owner # actor /\ faults' = faults) =>
                /\ last'.q.outcome = "created"
                /\ \E i \in ConnIds :
                     /\ connections[i] = NoConn
                     /\ connections' = [connections EXCEPT ![i] =
                          [skill |-> k, learner |-> actor,
                           teacher |-> skill.owner, price |-> skill.price,
                           status |-> "pending"]]]_vars

\* a connection was created after the skill's price had been edited
C30_Witness ==
  /\ last.q.op = "post" /\ last.q.outcome = "created"
  /\ skills[1].price # opening.price
  /\ \E i \in ConnIds :
       /\ i > InitConns /\ connections[i] # NoConn
       /\ connections[i].price = skills[1].price
       /\ connections[i].status = "pending"
       /\ connections[i].learner = last.q.actor

\* C31: a balance query for an identity that has an account answers exactly
\* the stored balance, 0 included, and changes no balance; a query creates
\* an account only for an identity that has none.
C31_BalanceQuery ==
  [][(/\ AnsweredAtOnce
      /\ last'.q.op \in {"balance", "balanceW"}
      /\ last'.q.outcome = "ok"
      /\ last'.q.actor \in Users
      /\ credits[last'.q.actor] # NoUser
      /\ Balance(last'.q.actor) # NoWallet)
       => /\ last'.q.balance = Balance(last'.q.actor)
          /\ credits' = credits /\ wallets' = wallets]_vars

\* ------------------------------------------ POST /api/credits/purchase
\* src/unnamed/part_000, lines 60-98 (wallets generation)

\* lines 68-77: upsert {user_id, balance: 0} on conflict user_id.  The
\* upsert merges duplicates: a wallet that exists has its balance set to 0,
\* one that does not is inserted with 0; the row comes back with balance 0.
WalletPurchaseUpsert(r, actor, amount) ==
  /\ backend = "wallets"
  /\ Arrive(r)
  /\ UNCHANGED <<skills, connections, nextId, credits, txlog, backend,
                 opening, ledger>>
  /\ \E f \in BOOLEAN :
       /\ MayFail(f) /\ Inject(f)
       /\ LET q == [Idle EXCEPT !.op = "purchaseW", !.actor = actor,
                                !.amount = amount]
          IN  IF f \/ credits[actor] = NoUser
                THEN /\ UNCHANGED wallets
                     /\ Respond(r, q, NoHist, "error")
                ELSE /\ wallets' = [wallets EXCEPT ![actor] = 0]
                     /\ Goto(r, [q EXCEPT !.currentCredits = OrDefault(0, 0)],
                             NoHist, "write")

\* lines 80-84: write w.balance + amount (result not looked at)
WalletPurchaseWrite(r) ==
  /\ req[r].op = "purchaseW" /\ req[r].pc = "write"
  /\ UNCHANGED <<skills, connections, nextId, credits, txlog, backend,
                 opening, ledger, nreq>>
  /\ \E f \in BOOLEAN :
       /\ MayFail(f) /\ Inject(f)
       /\ wallets' = IF f \/ wallets[req[r].actor] = NoWallet THEN wallets
                     ELSE [wallets EXCEPT ![req[r].actor] =
                             req[r].currentCredits + req[r].amount]
       /\ Goto(r, req[r], hist[r], "record")

\* lines 87-92: insert the purchase record (result not looked at), answer
WalletPurchaseRecord(r) ==
  /\ req[r].op = "purchaseW" /\ req[r].pc = "record"
  /\ UNCHANGED <<skills, connections, nextId, credits, wallets, backend,
                 opening, ledger, nreq>>
  /\ \E f \in BOOLEAN :
       /\ MayFail(f) /\ Inject(f)
       /\ IF f
            THEN /\ UNCHANGED txlog
                 /\ Respond(r, req[r], hist[r], "ok")
            ELSE /\ txlog' = Append(txlog, Tx(req[r].actor, "purchase",
                                              req[r].amount, 0))
                 /\ Respond(r, req[r], [hist[r] EXCEPT !.ntx = @ + 1], "ok")

\* purchases alone, of either generation, one after the other
PurchaseArrivals(r) ==
  \E actor \in Users, amount \in Amounts :
    \/ PurchaseRead(r, actor, amount)
    \/ WalletPurchaseUpsert(r, actor, amount)

PurchaseSteps(r) ==
  \/ PurchaseWrite(r) \/ PurchaseRecord(r)
  \/ WalletPurchaseWrite(r) \/ WalletPurchaseRecord(r)

NextPurchase ==
  /\ \E r \in Slots : (Quiescent /\ PurchaseArrivals(r)) \/ PurchaseSteps(r)
  /\ UNCHANGED mm

SpecPurchase == Init /\ [][NextPurchase]_vars

\* C32: a purchase of a positive amount a by a user whose balance is b >= 0
\* (no store statement failing) leaves that user's balance at b + a, also
\* when the account held a non-zero balance, appends exactly one purchase
\* record of amount a and changes no other account.  Stated for the first
\* purchase served, whose b is the opening balance.
C32_PurchaseAdds ==
  (/\ nreq = 1 /\ Quiescent /\ faults = 0
   /\ last.q.op \in {"purchase", "purchaseW"}
   /\ last.q.outcome = "ok"
   /\ opening.bal[last.q.actor] >= 0) =>
     /\ last.q.amount > 0
     /\ Balance(last.q.actor) = opening.bal[last.q.actor] + last.q.amount
     /\ \A u \in Users \ {last.q.actor} : Balance(u) = opening.bal[u]
     /\ txlog = <<Tx(last.q.actor, "purchase", last.q.amount, 0)>>

\* C33: no balance update is lost under interleaving.  When an acceptance
\* and a purchase or manual spend overlap in the users generation and both
\* are carried out (three records in the log: the acceptance's pair and the
\* purchase's or spend's one, no store statement failing), every balance is
\* its opening value plus the effect of both operations, which is what
\* running them one after the other gives.
C33_NoLostUpdate ==
  (/\ Quiescent /\ backend = "users" /\ faults = 0
   /\ nreq = 2 /\ Len(txlog) = 3
   /\ \E n \in 1..Len(txlog) : txlog[n].conn > 0 /\ txlog[n].amount > 0
   /\ \E n \in 1..Len(txlog) : txlog[n].conn = 0) =>
     \A u \in Users : credits[u] = opening.bal[u] + LogSum(txlog, u)
====
